---- MODULE Spec2Model ----
(***************************************************************************)
(* Model of get_availability.py: the weekly work windows, the busy lists   *)
(* of the chosen calendars, the sweep that subtracts busy from free, and   *)
(* the grouping of the result into printed lines.                          *)
(*                                                                         *)
(* Timestamps are aware datetimes; the model represents one by its number  *)
(* of seconds since a Monday 00:00 UTC.  A list [start, end] is the tuple  *)
(* <<start, end>>; Python index i is TLA+ index i + 1.  Timezones are      *)
(* fixed offsets from UTC (no DST transition inside the horizon).          *)
(***************************************************************************)
EXTENDS Integers, Sequences, FiniteSets, TLC

VARIABLES
    pc,         \* position in main: "prep", "loop", "done", "failed"
    now,        \* datetime.datetime.now(), seconds
    config,     \* the configuration record
    service,    \* per chosen calendar, the busy list the service reports
    cal_idx,    \* number of chosen calendars already processed
    free,       \* main's variable free
    free0,      \* the free list with which the calendar loop was entered
    busy,       \* main's variable busy (last list given to combine_ranges)
    free_in,    \* value of the free list at the last call of combine_ranges
    free_obj,   \* that same list object after the call returned
    busy_obj,   \* the busy list object after the call returned
    prov,       \* per returned interval: the free element it was cut from
    stdout,     \* lines printed so far
    err         \* "none" or the exception that ended the run

vars == <<pc, now, config, service, cal_idx, free, free0, busy, free_in, free_obj,
          busy_obj, prov, stdout, err>>

-----------------------------------------------------------------------------
(* Units of time, in seconds. *)
Minute == 60
Hour == 3600
Day == 86400

(* Bounds of the model. *)
MaxT == 4          \* input timestamps of the sweep are 0 .. MaxT half minutes
MaxLen == 3        \* most intervals drawn for one sweep, free and busy together
MaxM == 2          \* largest meeting_length_minutes drawn for the sweep
MaxStep == 12      \* scenario busy times are 09:00 plus 0 .. MaxStep times 5 minutes
MaxNow == 8        \* current times drawn: 12:00 plus 1 .. MaxNow half hours
MaxCals == 2       \* most chosen calendars
MaxDays == 2       \* largest days_forward drawn for prep_work_ranges alone
MaxHorizon == 9    \* largest days_forward drawn for the runs over more than a week

-----------------------------------------------------------------------------
(* Variants with a slip, used to see that the properties notice it.        *)
ceil_dt_down(dt, base, minutes) == dt - ((dt - base) % (minutes * Minute))
ceil_dt_no_base(dt, base, minutes) == dt + ((0 - dt) % (minutes * Minute))

(* ceil_dt: dt rounded up to base plus a whole number of `minutes`.        *)
(* timedelta % timedelta is a floored modulo, as is % here.                *)
ceil_dt(dt, base, minutes) == dt + ((base - dt) % (minutes * Minute))

(* The inner while loop of combine_ranges: skip the busy intervals that    *)
(* end at or before the start of the current free interval.                *)
RECURSIVE skip_busy(_, _, _)
skip_busy(b, busy_idx, free_start) ==
    IF busy_idx < Len(b) /\ b[busy_idx + 1][2] <= free_start
    THEN skip_busy(b, busy_idx + 1, free_start)
    ELSE busy_idx

append_range_unchecked(st, start, end, m) ==
    [st EXCEPT !.ranges = Append(@, <<start, end>>),
               !.prov = Append(@, [idx |-> st.free_idx,
                                   by |-> st.moved[st.free_idx + 1]])]

(* The tail of the outer loop body: keep [start, end] when it is long      *)
(* enough.  prov records which free element the interval was cut from and  *)
(* the busy end that last moved that element's start (-1: never moved).    *)
append_range(st, start, end, m) ==
    IF (end - start) \div Minute >= m
    THEN [st EXCEPT !.ranges = Append(@, <<start, end>>),
                    !.prov = Append(@, [idx |-> st.free_idx,
                                        by |-> st.moved[st.free_idx + 1]])]
    ELSE st

(* Move the start of the current free interval past the current busy       *)
(* interval, rounded up; give the free interval up when nothing is left.   *)
move_start(st, m) ==
    LET fi == st.free_idx + 1
        bi == st.busy_idx + 1
        new_free_start == ceil_dt(st.busy[bi][2], st.free[fi][1], m)
    IN  IF new_free_start < st.free[fi][2]
        THEN [st EXCEPT !.free[fi][1] = new_free_start,
                        !.moved[fi] = st.busy[bi][2],
                        !.busy_idx = @ + 1]
        ELSE [st EXCEPT !.free_idx = @ + 1, !.busy_idx = @ + 1]

range_to_busy_end(f, b) == <<f[1], b[2]>>

(* The candidate when busy starts inside free: from the start of free to   *)
(* the start of busy.                                                      *)
range_before_busy(f, b) == <<f[1], b[1]>>

(* One iteration of the outer while loop of combine_ranges. *)
sweep_step(st0, m) ==
    LET st == [st0 EXCEPT !.busy_idx =
                   skip_busy(st0.busy, st0.busy_idx, st0.free[st0.free_idx + 1][1])]
        f == st.free[st.free_idx + 1]
        b == st.busy[st.busy_idx + 1]
    IN  IF st.busy_idx = Len(st.busy) \/ b[1] >= f[2]
        THEN [append_range(st, f[1], f[2], m) EXCEPT !.free_idx = @ + 1]
        ELSE IF b[1] <= f[1]
        THEN IF b[2] >= f[2]
             THEN [st EXCEPT !.free_idx = @ + 1]
             ELSE move_start(st, m)
        ELSE IF b[2] >= f[2]
        THEN [append_range(st, range_before_busy(f, b)[1],
                           range_before_busy(f, b)[2], m)
                 EXCEPT !.free_idx = @ + 1]
        ELSE move_start(append_range(st, range_before_busy(f, b)[1],
                                     range_before_busy(f, b)[2], m), m)

RECURSIVE sweep_loop(_, _)
sweep_loop(st, m) ==
    IF st.free_idx < Len(st.free) THEN sweep_loop(sweep_step(st, m), m) ELSE st

(* combine_ranges, with the state of its arguments when it returns. *)
combine_sweep(cfg, f, b) ==
    sweep_loop([free |-> f, busy |-> b, free_idx |-> 0, busy_idx |-> 0,
                ranges |-> <<>>, prov |-> <<>>,
                moved |-> [i \in 1..Len(f) |-> -1]],
               cfg.meeting_length_minutes)

combine_ranges(cfg, f, b) == combine_sweep(cfg, f, b).ranges

-----------------------------------------------------------------------------
(* _CONFIG_DEFAULT_KEYS.  The two timezones are given by their offset from *)
(* UTC in seconds (America/Los_Angeles, standard time); the keys of days   *)
(* are weekday numbers, Monday = 0, and the times of day are seconds after *)
(* midnight, as _parse_timestr returns them.                               *)
_CONFIG_DEFAULT_KEYS ==
    [days_forward |-> 14,
     hours_till_first_meeting |-> 3,
     meeting_length_minutes |-> 30,
     meeting_spare_before |-> 0,
     meeting_spare_after |-> 0,
     show_timezone |-> -8 * Hour,
     show_24hr |-> FALSE,
     show_timezone_name |-> "PT",
     week_starts_on_sunday |-> FALSE,
     local_timezone |-> -8 * Hour,
     days |-> [d \in 0..6 |->
                 IF d \in 0..3 THEN <<<<9 * Hour, 17 * Hour>>>>
                 ELSE IF d = 4 THEN <<<<9 * Hour, 14 * Hour>>>>
                 ELSE <<>>]]

(* Wall-clock reading of an instant in a timezone, and its parts. *)
astimezone(t, tz) == t + tz
date(wall) == wall \div Day
weekday(wall) == (wall \div Day) % 7
localize(day, time_of_day, tz) == day * Day + time_of_day - tz

(* min_time of prep_work_ranges: the clock reading t plus the lead hours,   *)
(* with the minute and second of its local wall-clock reading set to zero. *)
min_time(cfg, t) ==
    LET wall == astimezone(t + cfg.hours_till_first_meeting * Hour, cfg.local_timezone)
    IN  (wall - (wall % Hour)) - cfg.local_timezone

(* The first two loops of prep_work_ranges: the keys of the configuration  *)
(* that are not recognised (the first of them fails the assertion), and    *)
(* the configuration after setdefault has filled in every absent key.      *)
unknown_keys(cfg) == DOMAIN cfg \ DOMAIN _CONFIG_DEFAULT_KEYS
setdefault(cfg) ==
    [key \in DOMAIN cfg \cup DOMAIN _CONFIG_DEFAULT_KEYS |->
        IF key \in DOMAIN cfg THEN cfg[key] ELSE _CONFIG_DEFAULT_KEYS[key]]

(* The body of the inner loop of prep_work_ranges for one template pair:   *)
(* "skip" (continue), "fail" (the assertion) or "keep" with the window.    *)
(* floor is the value of min_time.                                         *)
work_window(cfg, floor, day, pair) ==
    LET tz == cfg.local_timezone
        start0 == localize(day, pair[1], tz)
        end0 == localize(day, pair[2], tz)
        end == IF pair[2] < pair[1] THEN end0 + Day ELSE end0
        start == IF start0 < floor THEN floor ELSE start0
    IN  IF end < floor THEN [kind |-> "skip"]
        ELSE IF ~(start <= end) THEN [kind |-> "fail"]
        ELSE [kind |-> "keep", range |-> <<start, end>>]

(* The two nested loops of prep_work_ranges, from day offset i and pair    *)
(* number j (both counted from 0) on; today is the local date of the first *)
(* clock reading, floor the min_time made from the second.                 *)
RECURSIVE prep_loop(_, _, _, _, _, _)
prep_loop(cfg, today, floor, i, j, ranges) ==
    LET day == today + i
        dow == day % 7
    IN  IF i >= cfg.days_forward THEN [ranges |-> ranges, err |-> "none"]
        ELSE IF dow \notin DOMAIN cfg.days \/ j >= Len(cfg.days[dow])
        THEN prep_loop(cfg, today, floor, i + 1, 0, ranges)
        ELSE LET w == work_window(cfg, floor, day, cfg.days[dow][j + 1])
             IN  IF w.kind = "fail" THEN [ranges |-> ranges, err |-> "AssertionError"]
                 ELSE IF w.kind = "skip"
                 THEN prep_loop(cfg, today, floor, i, j + 1, ranges)
                 ELSE prep_loop(cfg, today, floor, i, j + 1, Append(ranges, w.range))

(* prep_work_ranges, the clock reading t1 when today is taken and t2 when  *)
(* min_time is taken: the windows returned, the error raised if any, and   *)
(* the configuration as the call leaves it.                                *)
prep_work_ranges(cfg, t1, t2) ==
    IF unknown_keys(cfg) # {}
    THEN [ranges |-> <<>>, config |-> cfg,
          err |-> "AssertionError: Unknown key in configuration"]
    ELSE LET c == setdefault(cfg)
             r == prep_loop(c, date(astimezone(t1, c.local_timezone)),
                            min_time(c, t2), 0, 0, <<>>)
         IN  [ranges |-> r.ranges, config |-> c, err |-> r.err]

(* get_busy_ranges on the busy list the service reports: each interval     *)
(* padded, in the order reported.                                          *)
get_busy_ranges(cfg, reported) ==
    [i \in 1..Len(reported) |->
        <<reported[i][1] - cfg.meeting_spare_before * Minute,
          reported[i][2] + cfg.meeting_spare_after * Minute>>]

-----------------------------------------------------------------------------
(* print_ranges *)
_to_weekday(wall, cfg) ==
    (weekday(wall) + (IF cfg.week_starts_on_sunday THEN 1 ELSE 0)) % 7

(* format_time: the fields the format string shows. *)
format_time(wall, cfg) ==
    LET hour == (wall % Day) \div Hour
        minute == (wall % Hour) \div Minute
        hour12 == ((hour + 11) % 12) + 1
        ampm == IF hour < 12 THEN "am" ELSE "pm"
    IN  IF cfg.show_24hr THEN <<hour, minute>>
        ELSE IF minute # 0 THEN <<hour12, minute, ampm>>
        ELSE <<hour12, ampm>>

(* The grouping loop: a range joins the last cluster when the weekday of   *)
(* its start equals the weekday remembered in day (-1 stands for None).    *)
RECURSIVE group_days(_, _, _, _, _)
group_days(ranges, i, tz, day_ranges, day) ==
    IF i > Len(ranges) THEN day_ranges
    ELSE LET r0 == astimezone(ranges[i][1], tz)
             r1 == astimezone(ranges[i][2], tz)
         IN  IF day = weekday(r0)
             THEN group_days(ranges, i + 1, tz,
                     [day_ranges EXCEPT ![Len(day_ranges)] = Append(@, <<r0, r1>>)],
                     day)
             ELSE group_days(ranges, i + 1, tz,
                     Append(day_ranges, <<<<r0, r1>>>>), weekday(r0))

(* The printing loop, from cluster k on: an optional "Next week:" line and *)
(* one line per cluster (its day label and its formatted ranges).          *)
RECURSIVE print_days(_, _, _, _)
print_days(day_ranges, k, last_weekday, cfg) ==
    IF k > Len(day_ranges) THEN <<>>
    ELSE LET day_list == day_ranges[k]
             first == day_list[1][1]
             line == [kind |-> "day",
                      dow |-> weekday(first),
                      date |-> date(first),
                      ranges |-> [n \in 1..Len(day_list) |->
                                    <<format_time(day_list[n][1], cfg),
                                      format_time(day_list[n][2], cfg)>>],
                      from |-> day_list]
         IN  (IF _to_weekday(first, cfg) < last_weekday
              THEN <<[kind |-> "Next week:"]>> ELSE <<>>)
             \o <<line>>
             \o print_days(day_ranges, k + 1, _to_weekday(first, cfg), cfg)

print_ranges(cfg, ranges) ==
    LET day_ranges == group_days(ranges, 1, cfg.show_timezone, <<>>, -1)
    IN  IF Len(day_ranges) = 0
        THEN [lines |-> <<>>, err |-> "IndexError"]
        ELSE [lines |-> print_days(day_ranges, 1,
                                   _to_weekday(day_ranges[1][1][1], cfg), cfg),
              err |-> "none"]

-----------------------------------------------------------------------------
(* main, from the call of prep_work_ranges on. *)

(* The clock is read twice in prep_work_ranges; between the two readings   *)
(* it stands still or moves on by one of the steps of Elapsed.             *)
Elapsed == {0, 1}

PrepWorkRanges ==
    /\ pc = "prep"
    /\ \E d \in Elapsed :
          LET r == prep_work_ranges(config, now, now + d)
          IN  /\ now' = now + d
              /\ config' = r.config
              /\ free' = r.ranges
              /\ free0' = r.ranges
              /\ err' = r.err
              /\ pc' = IF r.err = "none" THEN "loop" ELSE "failed"
    /\ UNCHANGED <<service, cal_idx, busy, free_in, free_obj,
                   busy_obj, prov, stdout>>

(* One iteration of the loop over the chosen calendars. *)
Calendar ==
    /\ pc = "loop"
    /\ cal_idx < Len(service)
    /\ LET b == get_busy_ranges(config, service[cal_idx + 1])
           st == combine_sweep(config, free, b)
       IN  /\ busy' = b
           /\ free_in' = free
           /\ free_obj' = st.free
           /\ busy_obj' = st.busy
           /\ free' = st.ranges
           /\ prov' = st.prov
    /\ cal_idx' = cal_idx + 1
    /\ UNCHANGED <<pc, now, config, service, free0, stdout, err>>

(* The header line and print_ranges on the final free list. *)
PrintRanges ==
    /\ pc = "loop"
    /\ cal_idx = Len(service)
    /\ LET r == print_ranges(config, free)
       IN  /\ stdout' = <<[kind |-> "header"]>> \o r.lines
           /\ err' = r.err
           /\ pc' = IF r.err = "none" THEN "done" ELSE "failed"
    /\ UNCHANGED <<now, config, service, cal_idx, free, free0, busy, free_in,
                   free_obj, busy_obj, prov>>

-----------------------------------------------------------------------------
(* Inputs. *)
SeqsUpTo(S, n) == UNION {[1..k -> S] : k \in 0..n}
SortedByStart(l) == \A i \in 1..(Len(l) - 1) : l[i][1] <= l[i + 1][1]
NonOverlapping(l) == \A i \in 1..(Len(l) - 1) : l[i][2] <= l[i + 1][1]

Times == {k * (Minute \div 2) : k \in 0..MaxT}
Intervals == {iv \in Times \X Times : iv[1] <= iv[2]}
SortedLists(n) == {l \in SeqsUpTo(Intervals, n) : SortedByStart(l)}
DisjointLists(n) == {l \in SortedLists(n) : NonOverlapping(l)}

(* The sweep on its own: main entered at its calendar loop with any free   *)
(* list sorted by start and one calendar reporting any busy list.          *)
InitCombine ==
    /\ pc = "loop"
    /\ now = 0
    /\ \E m \in 1..MaxM :
          config = [_CONFIG_DEFAULT_KEYS EXCEPT !.meeting_length_minutes = m]
    /\ \E n \in 0..MaxLen :
          /\ free \in SortedLists(n)
          /\ \E b \in SeqsUpTo(Intervals, MaxLen - n) : service = <<b>>
    /\ free0 = free
    /\ cal_idx = 0
    /\ busy = <<>> /\ free_in = <<>> /\ free_obj = <<>> /\ busy_obj = <<>>
    /\ prov = <<>> /\ stdout = <<>> /\ err = "none"

(* Two calendars whose busy lists are each sorted and non-overlapping and  *)
(* stay so when put together: a sorted non-overlapping list u is dealt out *)
(* to the two calendars.                                                   *)
Deal(u, mask, side) ==
    LET RECURSIVE pick(_)
        pick(i) == IF i > Len(u) THEN <<>>
                   ELSE (IF mask[i] = side THEN <<u[i]>> ELSE <<>>) \o pick(i + 1)
    IN  pick(1)

InitChain ==
    /\ pc = "loop"
    /\ now = 0
    /\ \E m \in 1..MaxM :
          config = [_CONFIG_DEFAULT_KEYS EXCEPT !.meeting_length_minutes = m]
    /\ \E n \in 0..MaxLen :
          /\ free \in SortedLists(n)
          /\ \E u \in DisjointLists(MaxLen - n) :
             \E mask \in [1..Len(u) -> {1, 2}] :
                service = <<Deal(u, mask, 1), Deal(u, mask, 2)>>
    /\ free0 = free
    /\ cal_idx = 0
    /\ busy = <<>> /\ free_in = <<>> /\ free_obj = <<>> /\ busy_obj = <<>>
    /\ prov = <<>> /\ stdout = <<>> /\ err = "none"

(* The worked scenarios: one free window starting at 09:00 and one busy    *)
(* interval on a five-minute raster after 09:00.                           *)
ScenarioBusy ==
    {<<9 * Hour + a * 5 * Minute, 9 * Hour + b * 5 * Minute>> :
        a \in 0..MaxStep, b \in 0..MaxStep} \ {iv \in Int \X Int : iv[1] > iv[2]}

InitScenario ==
    /\ pc = "loop"
    /\ now = 0
    /\ \E m \in {15, 30} :
          config = [_CONFIG_DEFAULT_KEYS EXCEPT !.meeting_length_minutes = m]
    /\ free \in {<<<<9 * Hour, 17 * Hour>>>>, <<<<9 * Hour, 10 * Hour>>>>,
                 <<<<9 * Hour, 9 * Hour + 20 * Minute>>>>}
    /\ \E b \in ScenarioBusy : service = <<<<b>>>>
    /\ free0 = free
    /\ cal_idx = 0
    /\ busy = <<>> /\ free_in = <<>> /\ free_obj = <<>> /\ busy_obj = <<>>
    /\ prov = <<>> /\ stdout = <<>> /\ err = "none"

(* A run of main: the current time on a Monday afternoon, the default      *)
(* configuration over one or two days (Monday, Tuesday) with a choice of lead *)
(* time, padding and Monday template,                                      *)
(* and up to MaxCals chosen calendars reporting busy intervals in any      *)
(* order between 15:00 and 17:00 local time.                               *)
LocalMonday(time_of_day) == localize(0, time_of_day, _CONFIG_DEFAULT_KEYS.local_timezone)
Nows == {LocalMonday(12 * Hour + k * (Hour \div 2)) : k \in 1..MaxNow}
MondayLists == {<<<<9 * Hour, 17 * Hour>>>>,
                <<<<9 * Hour, 12 * Hour>>, <<13 * Hour, 17 * Hour>>>>,
                <<<<9 * Hour, 12 * Hour>>, <<16 * Hour, 16 * Hour + 20 * Minute>>>>}
Configs ==
    {[_CONFIG_DEFAULT_KEYS EXCEPT !.days_forward = n,
                                  !.hours_till_first_meeting = lead,
                                  !.meeting_spare_before = pad,
                                  !.meeting_spare_after = pad,
                                  !.days[0] = monday] :
        n \in {1, 2}, lead \in {0, 3}, pad \in {0, 15}, monday \in MondayLists}
(* Configuration files that leave keys out (main reads show_timezone_name  *)
(* before prep_work_ranges fills in the defaults), and files that carry    *)
(* the key "timezone" of the older script next to recognised keys.         *)
PartialConfigs ==
    {[show_timezone_name |-> "PT", days_forward |-> n] : n \in {1, 2}}
    \cup {[show_timezone_name |-> "PT", days_forward |-> n,
           hours_till_first_meeting |-> 0] : n \in {1, 2}}
WithUnknownKey(cfg) ==
    [key \in DOMAIN cfg \cup {"timezone"} |->
        IF key = "timezone" THEN _CONFIG_DEFAULT_KEYS.local_timezone ELSE cfg[key]]
UnknownKeyConfigs == {WithUnknownKey(cfg) : cfg \in PartialConfigs \cup {_CONFIG_DEFAULT_KEYS}}

Reported == {iv \in {LocalMonday(15 * Hour), LocalMonday(16 * Hour),
                      LocalMonday(17 * Hour)} \X
                     {LocalMonday(15 * Hour), LocalMonday(16 * Hour),
                      LocalMonday(17 * Hour)} : iv[1] < iv[2]}
(* k reported lists holding at most n intervals together. *)
RECURSIVE Dealt(_, _)
Dealt(k, n) ==
    IF k = 0 THEN {<<>>}
    ELSE UNION {{<<l>> \o rest : l \in [1..j -> Reported], rest \in Dealt(k - 1, n - j)} :
                   j \in 0..n}
Services == UNION {Dealt(k, MaxLen) : k \in 1..MaxCals}

Init ==
    /\ pc = "prep"
    /\ now \in Nows
    /\ config \in Configs \cup PartialConfigs \cup UnknownKeyConfigs
    /\ service \in Services
    /\ cal_idx = 0
    /\ free = <<>> /\ free0 = <<>>
    /\ busy = <<>> /\ free_in = <<>> /\ free_obj = <<>> /\ busy_obj = <<>>
    /\ prov = <<>> /\ stdout = <<>> /\ err = "none"

(* prep_work_ranges on its own: every half hour of a Monday and a Tuesday  *)
(* and the second before the next, three timezones, and every template of at     *)
(* most one window per day on Monday and Tuesday whose two times of day    *)
(* differ; also configurations that leave keys to the defaults, and one    *)
(* with a key that is not recognised.                                      *)
TimesOfDay == {2 * Hour, 9 * Hour, 17 * Hour, 22 * Hour}
DayLists == {<<>>} \cup {<<p>> : p \in {q \in TimesOfDay \X TimesOfDay : q[1] # q[2]}}
PrepConfigs ==
    {[_CONFIG_DEFAULT_KEYS EXCEPT !.hours_till_first_meeting = lead,
                                  !.days_forward = n,
                                  !.local_timezone = tz,
                                  !.days[0] = monday,
                                  !.days[1] = tuesday] :
        lead \in {0, 3}, n \in 1..MaxDays, tz \in {-8 * Hour, 0, 5 * Hour + Hour \div 2},
        monday \in DayLists, tuesday \in DayLists}

PrepPartialConfigs ==
    {[days_forward |-> n] : n \in 1..MaxDays}
    \cup {[days_forward |-> n, hours_till_first_meeting |-> 0] : n \in 1..MaxDays}
    \cup {WithUnknownKey(_CONFIG_DEFAULT_KEYS)}

InitPrep ==
    /\ pc = "prep"
    /\ now \in {k * (Hour \div 2) + e * (Hour \div 2 - 1) :
                   k \in 0..(2 * (Day \div (Hour \div 2)) - 1), e \in {0, 1}}
    /\ config \in PrepConfigs \cup PrepPartialConfigs
    /\ service = <<<<>>>>
    /\ cal_idx = 0
    /\ free = <<>> /\ free0 = <<>>
    /\ busy = <<>> /\ free_in = <<>> /\ free_obj = <<>> /\ busy_obj = <<>>
    /\ prov = <<>> /\ stdout = <<>> /\ err = "none"

(* Runs of main over more than a week: the current time early on a Monday *)
(* or a Tuesday, a horizon of up to MaxHorizon days, a template with one   *)
(* 09:00-17:00 window on each day of a chosen set of weekdays, a choice of *)
(* display timezone, and one calendar reporting at most one busy interval  *)
(* on the first Monday.                                                    *)
WeekConfigs ==
    {[_CONFIG_DEFAULT_KEYS EXCEPT !.days_forward = n,
                                  !.show_timezone = tz,
                                  !.week_starts_on_sunday = sunday,
                                  !.days = [d \in 0..6 |->
                                              IF d \in open
                                              THEN <<<<9 * Hour, 17 * Hour>>>>
                                              ELSE <<>>]] :
        n \in 1..MaxHorizon, tz \in {-8 * Hour, 0, 5 * Hour + Hour \div 2},
        sunday \in BOOLEAN, open \in SUBSET {0, 1, 4}}

InitWeeks ==
    /\ pc = "prep"
    /\ now \in {LocalMonday(5 * Hour), LocalMonday(Day + 5 * Hour)}
    /\ config \in WeekConfigs
    /\ service \in {<<<<>>>>,
                    <<<<<<LocalMonday(9 * Hour), LocalMonday(12 * Hour)>>>>>>,
                    <<<<<<LocalMonday(8 * Hour), LocalMonday(18 * Hour)>>>>>>}
    /\ cal_idx = 0
    /\ free = <<>> /\ free0 = <<>>
    /\ busy = <<>> /\ free_in = <<>> /\ free_obj = <<>> /\ busy_obj = <<>>
    /\ prov = <<>> /\ stdout = <<>> /\ err = "none"

NextLoop == Calendar \/ PrintRanges
Next == PrepWorkRanges \/ Calendar \/ PrintRanges

Spec == Init /\ [][Next]_vars
SpecPrep == InitPrep /\ [][PrepWorkRanges]_vars
SpecScenario == InitScenario /\ [][NextLoop]_vars
SpecWeeks == InitWeeks /\ [][Next]_vars

SpecCombine == InitCombine /\ [][NextLoop]_vars
SpecChain == InitChain /\ [][NextLoop]_vars

-----------------------------------------------------------------------------
(* sorted(b1 + b2): the two lists in one, ordered by start, then by end. *)
Before(x, y) == x[1] < y[1] \/ (x[1] = y[1] /\ x[2] <= y[2])
RECURSIVE Merged(_, _)
Merged(b1, b2) ==
    IF Len(b1) = 0 THEN b2
    ELSE IF Len(b2) = 0 THEN b1
    ELSE IF Before(b1[1], b2[1]) THEN <<b1[1]>> \o Merged(Tail(b1), b2)
    ELSE <<b2[1]>> \o Merged(b1, Tail(b2))

-----------------------------------------------------------------------------
(* Properties. *)

MeetingLength == config.meeting_length_minutes * Minute
LongEnough(iv) == iv[2] - iv[1] >= MeetingLength
Intersects(x, y) == x[1] < y[2] /\ y[1] < x[2]
Elements(l) == {l[i] : i \in 1..Len(l)}

(* What C1 promises of the list combine_ranges returned: sorted by start,  *)
(* mutually non-overlapping, clear of every busy interval, and every       *)
(* interval at least the minimum meeting length long.                      *)
SweepGuarantee ==
    /\ SortedByStart(free)
    /\ NonOverlapping(free)
    /\ \A k \in 1..Len(free) : \A j \in 1..Len(busy) : ~Intersects(free[k], busy[j])
    /\ \A k \in 1..Len(free) : LongEnough(free[k])

SweepInputs ==
    /\ cal_idx = 1
    /\ SortedByStart(free_in)
    /\ SortedByStart(busy)
    /\ NonOverlapping(busy)

(* C1 as stated: for every free list sorted by start and every sorted,     *)
(* non-overlapping busy list, the returned list is sorted, non-overlapping,*)
(* clear of busy and made of intervals of at least m minutes.              *)
C1_AnySortedFree == SweepInputs => SweepGuarantee

(* C1, amended: the same guarantee when the free list, too, is mutually    *)
(* non-overlapping.                                                        *)
C1_DisjointFree == (SweepInputs /\ NonOverlapping(free_in)) => SweepGuarantee

C1_Witness ==
    /\ SweepInputs
    /\ NonOverlapping(free_in)
    /\ Len(busy) >= 1
    /\ Len(free) >= 1
    /\ \A j \in 1..Len(busy) : busy[j][1] < busy[j][2]
    /\ \E k \in 1..Len(free) : prov[k].by # -1 /\ free[k][1] > prov[k].by

(* C2: print_ranges called with the empty list completes without raising.  *)
C2_EmptyListPrints == (stdout # <<>> /\ free = <<>>) => err = "none"

(* C3: whatever order the service reports the busy intervals in, the list  *)
(* get_busy_ranges returns (and main hands to combine_ranges) is sorted by *)
(* start.                                                                  *)
C3_BusySorted == cal_idx >= 1 => SortedByStart(busy)

(* C4: every interval combine_ranges returns lies inside one interval of   *)
(* the free list it was given.                                             *)
C4_InsideFree ==
    cal_idx >= 1 =>
        \A k \in 1..Len(free) : \E i \in 1..Len(free_in) :
            free_in[i][1] <= free[k][1] /\ free[k][2] <= free_in[i][2]

C4_Witness ==
    /\ cal_idx = 1
    /\ Len(free) = 2
    /\ \A k \in 1..Len(free) : free[k] \notin Elements(free_in)

(* C5 as stated: for every free list, reducing by one busy list and then   *)
(* by a second gives what reducing by the two merged into one sorted list  *)
(* gives, when each busy list and the merged list are non-overlapping.     *)
ChainInputs ==
    /\ cal_idx = 2
    /\ SortedByStart(service[1]) /\ NonOverlapping(service[1])
    /\ SortedByStart(service[2]) /\ NonOverlapping(service[2])
    /\ NonOverlapping(Merged(service[1], service[2]))

C5_AnyFree ==
    ChainInputs => free = combine_ranges(config, free0, Merged(service[1], service[2]))

(* C5, amended: the equality holds when the free list is sorted by start   *)
(* and mutually non-overlapping.                                           *)
C5_DisjointFree ==
    (ChainInputs /\ SortedByStart(free0) /\ NonOverlapping(free0))
        => free = combine_ranges(config, free0, Merged(service[1], service[2]))

C5_Witness ==
    /\ ChainInputs /\ SortedByStart(free0) /\ NonOverlapping(free0)
    /\ service[1] # <<>> /\ service[2] # <<>>
    /\ \A c \in 1..2 : \A j \in 1..Len(service[c]) : service[c][j][1] < service[c][j][2]
    /\ free # <<>> /\ free_in # free0

(* C6: a returned interval whose start was moved past a busy interval      *)
(* starts a whole number of grid steps after the start of the original     *)
(* free interval, at the first such instant at or after the end of that    *)
(* busy interval.  The grid step of the code is meeting_length_minutes.    *)
C6_Rounding ==
    cal_idx >= 1 =>
        \A k \in 1..Len(free) :
            prov[k].by # -1 =>
                LET s == free[k][1]
                    original == free_in[prov[k].idx + 1][1]
                IN  /\ (s - original) % MeetingLength = 0
                    /\ s >= prov[k].by
                    /\ \A x \in prov[k].by..(s - 1) : (x - original) % MeetingLength # 0

C6_Witness ==
    /\ cal_idx = 1
    /\ \E k \in 1..Len(free) : prov[k].by # -1 /\ free[k][1] > prov[k].by

(* C7 as stated: a calendar reporting no busy interval leaves the free     *)
(* list as it was, for the first calendar as for the later ones.           *)
C7_PassThrough == (cal_idx >= 1 /\ busy = <<>>) => free = free_in

(* C7, amended: with no busy interval combine_ranges returns the intervals *)
(* of the free list that are at least the minimum meeting length long, in  *)
(* order; that is the whole list for every calendar after the first.       *)
C7_KeepsLongEnough ==
    (cal_idx >= 1 /\ busy = <<>>) =>
        /\ free = SelectSeq(free_in, LongEnough)
        /\ cal_idx >= 2 => free = free_in

C7_Witness ==
    /\ cal_idx = 2 /\ busy = <<>>
    /\ service[1] # <<>>
    /\ free # <<>> /\ free # free0

(* C8 as stated: with free 09:00-17:00, busy 09:00-09:05 and a minimum     *)
(* meeting length of 30 minutes the result is exactly 09:15-17:00 (a grid  *)
(* of 15 minutes that does not depend on the meeting length).              *)
Scenario5(m) ==
    /\ cal_idx = 1
    /\ free_in = <<<<9 * Hour, 17 * Hour>>>>
    /\ busy = <<<<9 * Hour, 9 * Hour + 5 * Minute>>>>
    /\ config.meeting_length_minutes = m

C8_QuarterHourGrid == Scenario5(30) => free = <<<<9 * Hour + 15 * Minute, 17 * Hour>>>>

(* C8, amended: the grid is the minimum meeting length; with 30 minutes    *)
(* the result is exactly 09:30-17:00, and it is 09:15-17:00 when the       *)
(* minimum meeting length is 15 minutes.                                   *)
C8_MeetingLengthGrid ==
    /\ Scenario5(30) => free = <<<<9 * Hour + 30 * Minute, 17 * Hour>>>>
    /\ Scenario5(15) => free = <<<<9 * Hour + 15 * Minute, 17 * Hour>>>>

C8_Witness == Scenario5(30) /\ Len(free) = 1 /\ prov[1].by = 9 * Hour + 5 * Minute

(* C9: when combine_ranges has returned, every element of the free list    *)
(* and of the busy list it was called with is as it was before the call.   *)
C9_ArgumentsUntouched == cal_idx >= 1 => (free_obj = free_in /\ busy_obj = busy)

(* C10: when every template pair has two different times of day,           *)
(* prep_work_ranges ends without failing its assertion on a window, and    *)
(* every window it returns starts strictly before it ends and not before   *)
(* the floor.                                                              *)
DistinctTimesOfDay ==
    \A d \in DOMAIN config.days : \A j \in 1..Len(config.days[d]) :
        config.days[d][j][1] # config.days[d][j][2]

C10_WindowsNonDegenerate ==
    (pc # "prep" /\ DistinctTimesOfDay) =>
        /\ err # "AssertionError"
        /\ \A k \in 1..Len(free) :
              free[k][1] < free[k][2] /\ free[k][1] >= min_time(config, now)

(* C11: for a sorted free list, every interval on a printed line starts,   *)
(* in the display timezone, on the calendar date of the line's first       *)
(* interval, the date the day label shows; intervals of different dates    *)
(* are never on one line.                                                  *)
C11_OneDatePerLine ==
    (pc = "done" /\ SortedByStart(free)) =>
        \A i \in 1..Len(stdout) :
            stdout[i].kind = "day" =>
                \A n \in 1..Len(stdout[i].from) :
                    date(stdout[i].from[n][1]) = stdout[i].date

====
